---- MODULE Spec2Model ----
(***************************************************************************)
(* GTR (Go Tiny Router): a model of src/pkg/gtr.go.                        *)
(*                                                                         *)
(* Strings are sequences of one-character strings, so "/a" is <<"/","a">>  *)
(* and the empty string is << >>.  A URL is a record                       *)
(*   [host, path, query]                                                   *)
(* where path is url.Path and query is the raw query as the sequence of    *)
(* its key=value pairs, in the order they are written.                     *)
(***************************************************************************)
EXTENDS Integers, Sequences, FiniteSets, TLC

VARIABLES
    routes,     \* RouteTable.routes : segment count -> sequence of Route
    configs,    \* RouteTable.configs: hash -> config
    lastOp,     \* the call just made on the table, with what it returned
    regOrder,   \* history: the URLs whose Register call stored a route, in order
    firstConf,  \* history: hash -> the config of the first Register call with it
    inT,        \* pure-function runs: the template URL (or the URL to parse)
    inC,        \* pure-function runs: the candidate URL
    order,      \* pure-function runs: order in which range visits routeParams
    parsed,     \* pure-function runs: the Route that ParseRoute returned
    result,     \* pure-function runs: the rank that RouteCompare returned
    done,       \* pure-function runs: whether the function has been applied
    pc,         \* concurrent runs: each goroutine's position in Register
    loc,        \* concurrent runs: each goroutine's locals
    crashed,    \* concurrent runs: the runtime stopped on a concurrent map access
    overlap     \* concurrent runs: history, two Register calls ran at once

vars == <<routes, configs, lastOp, regOrder, firstConf,
          inT, inC, order, parsed, result, done, pc, loc, crashed, overlap>>

tableVars == <<routes, configs, lastOp, regOrder, firstConf>>
pureVars  == <<inT, inC, order, parsed, result, done>>
concVars  == <<pc, loc, crashed, overlap>>

----------------------------------------------------------------------------
(* Bounds *)

MaxPathLen == 5
MaxPairs == 2
MaxPieces == 2
MaxRoutes == 3
MaxCalls == 2

----------------------------------------------------------------------------
(* Strings *)

EmptyStr == << >>
Sentinel == <<"?">>

\* The order Go's string comparison gives the one-character values used here.
CharRank(c) ==
    CASE c = "1" -> 1
      [] c = "2" -> 2
      [] c = "3" -> 3
      [] OTHER   -> 0

\* s > t for Go strings, byte by byte.
RECURSIVE StrGreater(_, _)
StrGreater(s, t) ==
    IF s = << >> THEN FALSE
    ELSE IF t = << >> THEN TRUE
    ELSE IF CharRank(Head(s)) # CharRank(Head(t))
         THEN CharRank(Head(s)) > CharRank(Head(t))
         ELSE StrGreater(Tail(s), Tail(t))

\* strings.Split(s, "/"): the pieces between the slashes, empty ones included.
RECURSIVE SplitFrom(_, _, _)
SplitFrom(s, i, cur) ==
    IF i > Len(s) THEN <<cur>>
    ELSE IF s[i] = "/" THEN <<cur>> \o SplitFrom(s, i + 1, << >>)
    ELSE SplitFrom(s, i + 1, Append(cur, s[i]))

Split(s) == SplitFrom(s, 1, << >>)

\* strings.Join(values, ",")
RECURSIVE Join(_)
Join(values) ==
    IF values = << >> THEN << >>
    ELSE IF Len(values) = 1 THEN values[1]
    ELSE values[1] \o <<",">> \o Join(Tail(values))

\* sort.Slice(value, func(i, j) bool { return value[i] > value[j] }):
\* insertion of each value before the first one it is greater than.
RECURSIVE InsertDesc(_, _)
InsertDesc(v, sorted) ==
    IF sorted = << >> THEN <<v>>
    ELSE IF StrGreater(v, Head(sorted)) THEN <<v>> \o sorted
    ELSE <<Head(sorted)>> \o InsertDesc(v, Tail(sorted))

RECURSIVE SortDesc(_)
SortDesc(values) ==
    IF values = << >> THEN << >>
    ELSE InsertDesc(Head(values), SortDesc(Tail(values)))

----------------------------------------------------------------------------
(* net/url: what the code reads of a parsed URL *)

\* url.RawQuery: the pairs written key=value and joined by "&".
RECURSIVE RawQuery(_)
RawQuery(query) ==
    IF query = << >> THEN << >>
    ELSE LET first == query[1][1] \o <<"=">> \o query[1][2]
         IN IF Len(query) = 1 THEN first
            ELSE first \o <<"&">> \o RawQuery(Tail(query))

\* url.Query(): key -> the values given for it, in the order written.
QueryKeys(query) == {query[i][1] : i \in 1..Len(query)}

RECURSIVE ValuesOf(_, _)
ValuesOf(query, key) ==
    IF query = << >> THEN << >>
    ELSE IF query[1][1] = key THEN <<query[1][2]>> \o ValuesOf(Tail(query), key)
    ELSE ValuesOf(Tail(query), key)

Query(url) == [key \in QueryKeys(url.query) |-> ValuesOf(url.query, key)]

----------------------------------------------------------------------------
(* CreateHash, ParseRoute, RouteCompare *)

\* The bytes handed to SHA-256.  SHA-256 and the hex encoding are taken to be
\* injective, so the hash is represented by the bytes it is computed from.
CreateHash(url) ==
    IF Len(RawQuery(url.query)) > 0
    THEN url.path \o <<"?">> \o RawQuery(url.query)
    ELSE url.path

\* A plausible slip: positions counted over the non-empty segments only.
RECURSIVE CompactFrom(_, _, _)
CompactFrom(parts, i, n) ==
    IF i > Len(parts) THEN << >>
    ELSE IF Len(parts[i]) = 0 THEN CompactFrom(parts, i + 1, n)
    ELSE (n :> (IF parts[i][1] = ":" THEN Sentinel ELSE parts[i]))
         @@ CompactFrom(parts, i + 1, n + 1)

ParseRouteCompact(url) ==
    LET parts == Split(url.path)
        values == Query(url)
    IN [host        |-> url.host,
        routeParams |-> CompactFrom(parts, 1, 0),
        queryParams |-> [key \in DOMAIN values |-> Join(SortDesc(values[key]))],
        hash        |-> CreateHash(url)]

ParseRoute(url) ==
    LET parts == Split(url.path)
        kept == {index \in 0..(Len(parts) - 1) : Len(parts[index + 1]) # 0}
        values == Query(url)
    IN [host        |-> url.host,
        routeParams |-> [index \in kept |->
                            IF parts[index + 1][1] = ":" THEN Sentinel
                            ELSE parts[index + 1]],
        queryParams |-> [key \in DOMAIN values |-> Join(SortDesc(values[key]))],
        hash        |-> CreateHash(url)]

\* Go's map lookup: the zero value "" for an absent key.
Lookup(m, key) == IF key \in DOMAIN m THEN m[key] ELSE EmptyStr

Card(m) == Cardinality(DOMAIN m)

\* The orders in which a range over map m can visit its keys.
Orders(m) ==
    {o \in [1..Card(m) -> DOMAIN m] :
        \A i, j \in 1..Card(m) : i # j => o[i] # o[j]}

\* The loop over preferredRoute.routeParams, visiting the keys in ord.
RECURSIVE SegmentLoop(_, _, _, _)
SegmentLoop(preferredRoute, route, ord, rank) ==
    IF ord = << >> THEN rank
    ELSE LET key == Head(ord)
             value == preferredRoute.routeParams[key]
         IN IF value = Sentinel
            THEN SegmentLoop(preferredRoute, route, Tail(ord), rank + 1)
            ELSE IF value # Lookup(route.routeParams, key)
            THEN 0
            ELSE SegmentLoop(preferredRoute, route, Tail(ord), rank + 2)

\* A plausible slip: a literal mismatch adds nothing but the loop goes on.
RECURSIVE SegmentLoopNoAbort(_, _, _, _)
SegmentLoopNoAbort(preferredRoute, route, ord, rank) ==
    IF ord = << >> THEN rank
    ELSE LET key == Head(ord)
             value == preferredRoute.routeParams[key]
         IN IF value = Sentinel
            THEN SegmentLoopNoAbort(preferredRoute, route, Tail(ord), rank + 1)
            ELSE IF value # Lookup(route.routeParams, key)
            THEN SegmentLoopNoAbort(preferredRoute, route, Tail(ord), rank)
            ELSE SegmentLoopNoAbort(preferredRoute, route, Tail(ord), rank + 2)

\* A plausible slip: literal and parameter segments weigh the same.
RECURSIVE SegmentLoopFlat(_, _, _, _)
SegmentLoopFlat(preferredRoute, route, ord, rank) ==
    IF ord = << >> THEN rank
    ELSE LET key == Head(ord)
             value == preferredRoute.routeParams[key]
         IN IF value = Sentinel
            THEN SegmentLoopFlat(preferredRoute, route, Tail(ord), rank + 1)
            ELSE IF value # Lookup(route.routeParams, key)
            THEN 0
            ELSE SegmentLoopFlat(preferredRoute, route, Tail(ord), rank + 1)

\* The loop over preferredRoute.queryParams: TRUE when it returns 0.
QueryFails(preferredRoute, route) ==
    \E key \in DOMAIN preferredRoute.queryParams :
        \/ key \notin DOMAIN route.queryParams
        \/ route.queryParams[key] # preferredRoute.queryParams[key]

RouteCompareNoAbort(preferredRoute, route, ord) ==
    IF Card(preferredRoute.routeParams) # Card(route.routeParams) THEN 0
    ELSE IF QueryFails(preferredRoute, route) THEN 0
    ELSE SegmentLoopNoAbort(preferredRoute, route, ord, 0)

RouteCompareFlat(preferredRoute, route, ord) ==
    IF Card(preferredRoute.routeParams) # Card(route.routeParams) THEN 0
    ELSE IF QueryFails(preferredRoute, route) THEN 0
    ELSE SegmentLoopFlat(preferredRoute, route, ord, 0)

RouteCompare(preferredRoute, route, ord) ==
    IF Card(preferredRoute.routeParams) # Card(route.routeParams) THEN 0
    ELSE LET rank == SegmentLoop(preferredRoute, route, ord, 0)
         IN IF QueryFails(preferredRoute, route) THEN 0 ELSE rank

----------------------------------------------------------------------------
(* RouteTable *)

HOST_NOT_REGISTERED == "host not registered"
NO_MATCH_FOUND == "no match found"
NO_URL_REGISTERED == "no url registered"
NoError == "nil"

\* The zero value of map[string]any, which a lookup of an absent hash gives.
NilConf == "nil"

\* DefaultRouteTable: both maps empty.
DefaultRouteTable ==
    /\ routes = << >>
    /\ configs = << >>

\* A plausible slip: the test of line 184 is left out.
NeverRegistered(hash) == FALSE

\* Line 184: _, ok := rt.configs[route.hash]
IsRegistered(hash) == hash \in DOMAIN configs

\* A plausible slip: no duplicate check, every call stores and appends.
RegisterNoCheck(url, conf) ==
    LET route == ParseRoute(url)
        len == Card(route.routeParams)
    IN /\ configs' = (route.hash :> conf) @@ configs
       /\ routes' = IF len \in DOMAIN routes
                    THEN [routes EXCEPT ![len] = Append(@, route)]
                    ELSE (len :> <<route>>) @@ routes

\* A plausible slip: the config is stored before the duplicate check.
RegisterOverwrite(url, conf) ==
    LET route == ParseRoute(url)
        len == Card(route.routeParams)
    IN /\ configs' = (route.hash :> conf) @@ configs
       /\ routes' = IF route.hash \in DOMAIN configs THEN routes
                    ELSE IF len \in DOMAIN routes
                    THEN [routes EXCEPT ![len] = Append(@, route)]
                    ELSE (len :> <<route>>) @@ routes

\* RouteTable.Register: what the call does to configs and routes.
Register(url, conf) ==
    LET route == ParseRoute(url)
        len == Card(route.routeParams)
    IN IF IsRegistered(route.hash)
       THEN UNCHANGED <<routes, configs>>
       ELSE /\ configs' = (route.hash :> conf) @@ configs
            /\ LET made == IF len \in DOMAIN routes THEN routes
                           ELSE (len :> << >>) @@ routes
               IN routes' = [made EXCEPT ![len] = Append(@, route)]

\* The loop of Find over the bucket; ords[i] is the order in which the call
\* of RouteCompare on the i-th template visits that template's segments.
RECURSIVE FindLoop(_, _, _, _, _, _)
FindLoop(bucket, prt, ords, i, lrnk, lrt) ==
    IF i > Len(bucket) THEN [lrnk |-> lrnk, lrt |-> lrt]
    ELSE LET rnk == RouteCompare(bucket[i], prt, ords[i])
         IN IF rnk # 0 /\ rnk > lrnk
            THEN FindLoop(bucket, prt, ords, i + 1, rnk, bucket[i])
            ELSE FindLoop(bucket, prt, ords, i + 1, lrnk, lrt)

\* A plausible slip: >= in place of >, so that a later equal rank wins.
RECURSIVE FindLoopLast(_, _, _, _, _, _)
FindLoopLast(bucket, prt, ords, i, lrnk, lrt) ==
    IF i > Len(bucket) THEN [lrnk |-> lrnk, lrt |-> lrt]
    ELSE LET rnk == RouteCompare(bucket[i], prt, ords[i])
         IN IF rnk # 0 /\ rnk >= lrnk
            THEN FindLoopLast(bucket, prt, ords, i + 1, rnk, bucket[i])
            ELSE FindLoopLast(bucket, prt, ords, i + 1, lrnk, lrt)

\* A plausible slip: the best rank starts below 0 and a rank of 0 competes.
RECURSIVE FindLoopZero(_, _, _, _, _, _)
FindLoopZero(bucket, prt, ords, i, lrnk, lrt) ==
    IF i > Len(bucket) THEN [lrnk |-> lrnk, lrt |-> lrt]
    ELSE LET rnk == RouteCompare(bucket[i], prt, ords[i])
         IN IF rnk > lrnk
            THEN FindLoopZero(bucket, prt, ords, i + 1, rnk, bucket[i])
            ELSE FindLoopZero(bucket, prt, ords, i + 1, lrnk, lrt)

Failed(err) == [hash |-> EmptyStr, err |-> err]
Found(route) == [hash |-> route.hash, err |-> NoError]

FindLast(url, ords) ==
    IF Card(routes) = 0 THEN Failed(NO_URL_REGISTERED)
    ELSE LET prt == ParseRoute(url)
             len == Card(prt.routeParams)
         IN IF len \notin DOMAIN routes THEN Failed(HOST_NOT_REGISTERED)
            ELSE LET best == FindLoopLast(routes[len], prt, ords, 1, 0, prt)
                 IN IF best.lrnk = 0 THEN Failed(NO_MATCH_FOUND)
                    ELSE Found(best.lrt)

FindZero(url, ords) ==
    IF Card(routes) = 0 THEN Failed(NO_URL_REGISTERED)
    ELSE LET prt == ParseRoute(url)
             len == Card(prt.routeParams)
         IN IF len \notin DOMAIN routes THEN Failed(HOST_NOT_REGISTERED)
            ELSE LET best == FindLoopZero(routes[len], prt, ords, 1, -1, prt)
                 IN IF best.lrnk = -1 THEN Failed(NO_MATCH_FOUND)
                    ELSE Found(best.lrt)

\* A plausible slip: the check for an empty table is left out.
FindNoEmptyCheck(url, ords) ==
    LET prt == ParseRoute(url)
        len == Card(prt.routeParams)
    IN IF len \notin DOMAIN routes THEN Failed(HOST_NOT_REGISTERED)
       ELSE LET best == FindLoop(routes[len], prt, ords, 1, 0, prt)
            IN IF best.lrnk = 0 THEN Failed(NO_MATCH_FOUND)
               ELSE Found(best.lrt)

\* RouteTable.Find: the hash and the error returned.  lrt is nil until a
\* template wins and is read only when one has; prt stands in for nil.
Find(url, ords) ==
    IF Card(routes) = 0 THEN Failed(NO_URL_REGISTERED)
    ELSE LET prt == ParseRoute(url)
             len == Card(prt.routeParams)
         IN IF len \notin DOMAIN routes THEN Failed(HOST_NOT_REGISTERED)
            ELSE LET best == FindLoop(routes[len], prt, ords, 1, 0, prt)
                 IN IF best.lrnk = 0 THEN Failed(NO_MATCH_FOUND)
                    ELSE Found(best.lrt)

\* RouteTable.GetConfig
GetConfig(hash) == IF hash \in DOMAIN configs THEN configs[hash] ELSE NilConf

\* The bucket Find ranges over for url, and the visiting orders its calls of
\* RouteCompare can take.
BucketFor(url) ==
    LET len == Card(ParseRoute(url).routeParams)
    IN IF len \in DOMAIN routes THEN routes[len] ELSE << >>

OrderChoices(bucket) ==
    {os \in [1..Len(bucket) ->
                UNION {Orders(bucket[i].routeParams) : i \in 1..Len(bucket)}] :
        \A i \in 1..Len(bucket) : os[i] \in Orders(bucket[i].routeParams)}

----------------------------------------------------------------------------
(* Inputs *)

Url(host, path, query) == [host |-> host, path |-> path, query |-> query]

NoUrl == Url(<< >>, << >>, << >>)
NoRoute == ParseRoute(NoUrl)

Host1 == <<"h">>
Host2 == <<"g">>

K1 == <<<<"k">>, <<"1">>>>
K2 == <<<<"k">>, <<"2">>>>
J1 == <<<<"j">>, <<"1">>>>

SeqsUpTo(S, n) == UNION {[1..k -> S] : k \in 0..n}

RECURSIVE Flatten(_)
Flatten(ss) == IF ss = << >> THEN << >> ELSE Head(ss) \o Flatten(Tail(ss))

\* Paths written character by character, and raw queries pair by pair.
PathChars == {"/", "a", "b", ":"}
ParseUrls ==
    {Url(Host1, p, q) : p \in SeqsUpTo(PathChars, MaxPathLen),
                        q \in SeqsUpTo({K1, K2}, MaxPairs)}

\* Paths built from whole segments, for the runs of RouteCompare.
TemplatePieces == {<<"/", "a">>, <<"/", ":", "p">>, <<"/">>}
CandidatePieces == {<<"/", "a">>, <<"/", "b">>, <<"/">>}
PiecePaths(pieces) == {Flatten(ss) : ss \in SeqsUpTo(pieces, MaxPieces)}

TemplateQueries == {<< >>, <<K1>>, <<K2>>, <<K1, K2>>, <<K2, K1>>}
CandidateQueries == {<< >>, <<K1>>, <<J1>>, <<K1, J1>>, <<K1, K2>>, <<K2, K1>>}

ScoreTemplates ==
    {Url(Host1, p, q) : p \in PiecePaths(TemplatePieces), q \in TemplateQueries}
ScoreCandidates ==
    {Url(Host1, p, q) : p \in PiecePaths(CandidatePieces), q \in CandidateQueries}

\* What is registered in and looked up from the table.
PathRoot == <<"/">>
PathA == <<"/", "a">>
PathB == <<"/", "b">>
PathP == <<"/", ":", "p">>
PathAB == <<"/", "a", "/", "b">>
PathAA == <<"/", "a", "/", "a">>
PathPQ == <<"/", ":", "p", "/", ":", "q">>
PathABA == <<"/", "a", "/", "b", "/", "a">>

TableTemplates ==
    {Url(Host1, PathRoot, << >>),
     Url(Host1, PathA, << >>), Url(Host2, PathA, << >>),
     Url(Host1, PathA, <<K1>>), Url(Host1, PathP, <<K1>>),
     Url(Host1, PathAB, << >>), Url(Host1, PathPQ, << >>)}

TableCandidates ==
    {Url(Host1, PathRoot, << >>),
     Url(Host1, PathA, << >>), Url(Host1, PathB, << >>),
     Url(Host1, PathA, <<K1>>), Url(Host1, PathA, <<K2>>),
     Url(Host1, PathA, <<K1, J1>>),
     Url(Host1, PathAB, << >>), Url(Host1, PathAA, << >>),
     Url(Host1, PathABA, << >>)}

Confs == {"c1", "c2"}

NoOp == [op |-> "none", url |-> NoUrl, conf |-> NilConf,
         hash |-> EmptyStr, err |-> NoError, dup |-> FALSE]

----------------------------------------------------------------------------
(* The table at rest, for the runs of the pure functions *)

TableIdle ==
    /\ routes = << >>
    /\ configs = << >>
    /\ lastOp = NoOp
    /\ regOrder = << >>
    /\ firstConf = << >>

ConcIdle ==
    /\ pc = << >>
    /\ loc = << >>
    /\ crashed = FALSE
    /\ overlap = FALSE

PureIdle ==
    /\ inT = NoUrl
    /\ inC = NoUrl
    /\ order = << >>
    /\ parsed = NoRoute
    /\ result = 0
    /\ done = FALSE

----------------------------------------------------------------------------
(* The table used by one caller at a time *)

Init ==
    /\ DefaultRouteTable
    /\ lastOp = NoOp
    /\ regOrder = << >>
    /\ firstConf = << >>
    /\ PureIdle /\ ConcIdle

\* A call of Register.  The history is kept from the arguments alone: the
\* first config given for a hash, and the URLs that came with a new hash.
DoRegister ==
    \E url \in TableTemplates, conf \in Confs :
        LET hash == CreateHash(url)
            seen == hash \in DOMAIN firstConf
        IN /\ lastOp = NoOp
           /\ seen \/ Len(regOrder) < MaxRoutes
           /\ Register(url, conf)
           /\ lastOp' = [NoOp EXCEPT !.op = "Register", !.url = url,
                            !.conf = conf, !.hash = hash, !.dup = seen]
           /\ regOrder' = IF seen THEN regOrder ELSE Append(regOrder, url)
           /\ firstConf' = IF seen THEN firstConf
                           ELSE (hash :> conf) @@ firstConf
           /\ UNCHANGED <<pureVars, concVars>>

\* A call of Find.
DoFind ==
    \E url \in TableCandidates :
        \E ords \in OrderChoices(BucketFor(url)) :
            LET res == Find(url, ords)
            IN /\ lastOp = NoOp
               /\ lastOp' = [NoOp EXCEPT !.op = "Find", !.url = url,
                                !.hash = res.hash, !.err = res.err]
               /\ UNCHANGED <<routes, configs, regOrder, firstConf,
                              pureVars, concVars>>

\* A call of GetConfig, on a hash that Find can return or on any other.
DoGetConfig ==
    \E hash \in {CreateHash(url) : url \in TableTemplates} :
        /\ lastOp = NoOp
        /\ lastOp' = [NoOp EXCEPT !.op = "GetConfig", !.hash = hash,
                         !.conf = GetConfig(hash)]
        /\ UNCHANGED <<routes, configs, regOrder, firstConf,
                       pureVars, concVars>>

\* The caller takes what the call returned and is free to call again.
Return ==
    /\ lastOp # NoOp
    /\ lastOp' = NoOp
    /\ UNCHANGED <<routes, configs, regOrder, firstConf, pureVars, concVars>>

Next == DoRegister \/ DoFind \/ DoGetConfig \/ Return

Spec == Init /\ [][Next]_vars

\* The templates registered so far, in the order of their first registration,
\* read from the history of the calls and not from the table.
Registered(i) == ParseRoute(regOrder[i])
Candidate == ParseRoute(lastOp.url)
SameCount(t, c) == Card(t.routeParams) = Card(c.routeParams)
SameBucket(c) == {i \in 1..Len(regOrder) : SameCount(Registered(i), c)}

\* The rank RouteCompare gives t against c; every visiting order gives it.
Ranks(t, c) == {RouteCompare(t, c, o) : o \in Orders(t.routeParams)}
Rank(t, c) == CHOOSE r \in Ranks(t, c) : TRUE

FindSucceeded == lastOp.op = "Find" /\ lastOp.err = NoError

\* C1: a successful Find returns the hash of a template of the bucket for the
\* URL's segment count whose rank against the URL is the greatest of that
\* bucket, and of the templates with that rank the one registered first.
C1_BestEarliest ==
    FindSucceeded =>
        \E i \in SameBucket(Candidate) :
            /\ lastOp.hash = Registered(i).hash
            /\ \E k \in 1..Len(BucketFor(lastOp.url)) :
                  BucketFor(lastOp.url)[k] = Registered(i)
            /\ \A j \in SameBucket(Candidate) :
                  /\ Rank(Registered(j), Candidate) <= Rank(Registered(i), Candidate)
                  /\ j < i =>
                        Rank(Registered(j), Candidate) < Rank(Registered(i), Candidate)

\* Find succeeded where a template registered later has the same, greatest rank.
C1_Witness ==
    /\ FindSucceeded
    /\ \E i, j \in SameBucket(Candidate) :
          /\ i < j
          /\ lastOp.hash = Registered(i).hash
          /\ Rank(Registered(j), Candidate) = Rank(Registered(i), Candidate)

\* How often a route with this hash is stored in the table.
Slots == UNION {{<<len, k>> : k \in 1..Len(routes[len])} : len \in DOMAIN routes}
Stored(hash) == Cardinality({s \in Slots : routes[s[1]][s[2]].hash = hash})

\* C2: a Register call made when configs holds the hash of its URL changes
\* neither routes nor configs, and the config under that hash stays the one
\* of the first registration.
C2_DuplicateIsNoOp ==
    [][(lastOp'.op = "Register" /\ lastOp # lastOp'
          /\ lastOp'.hash \in DOMAIN configs)
        => (/\ routes' = routes
            /\ configs' = configs
            /\ configs'[lastOp'.hash] = firstConf[lastOp'.hash])]_vars

\* A Register call for a stored hash that brought another config.
C2_Witness ==
    /\ lastOp.op = "Register"
    /\ lastOp.dup
    /\ lastOp.hash \in DOMAIN configs
    /\ lastOp.conf # configs[lastOp.hash]
    /\ Stored(lastOp.hash) = 1

\* C3: Find fails with NO_URL_REGISTERED exactly when nothing was registered;
\* otherwise with HOST_NOT_REGISTERED exactly when no registered template has
\* the URL's segment count; otherwise with NO_MATCH_FOUND exactly when every
\* template of that count has rank 0 against the URL; otherwise it succeeds.
C3_ErrorOrder ==
    lastOp.op = "Find" =>
        lastOp.err =
            IF Len(regOrder) = 0 THEN NO_URL_REGISTERED
            ELSE IF SameBucket(Candidate) = {} THEN HOST_NOT_REGISTERED
            ELSE IF \A i \in SameBucket(Candidate) :
                       Ranks(Registered(i), Candidate) = {0}
                 THEN NO_MATCH_FOUND
                 ELSE NoError

\* Find failed with NO_MATCH_FOUND although templates of other counts and
\* templates of the URL's count are registered.
C3_Witness ==
    /\ lastOp.op = "Find"
    /\ lastOp.err = NO_MATCH_FOUND
    /\ SameBucket(Candidate) # {}
    /\ SameBucket(Candidate) # 1..Len(regOrder)
    /\ \E i \in SameBucket(Candidate) : Card(Registered(i).routeParams) > 0

\* C5: the hash a successful Find returns is a key of configs, and GetConfig
\* gives for it the config of the first Register call that had that hash.
C5_ConfigOfFirstRegistration ==
    /\ FindSucceeded =>
          /\ lastOp.hash \in DOMAIN configs
          /\ lastOp.hash \in DOMAIN firstConf
          /\ GetConfig(lastOp.hash) = firstConf[lastOp.hash]
    /\ (lastOp.op = "GetConfig" /\ lastOp.hash \in DOMAIN firstConf) =>
          lastOp.conf = firstConf[lastOp.hash]

\* Find returned the first template registered, after later registrations
\* that brought other configs.
C5_Witness ==
    /\ FindSucceeded
    /\ Len(regOrder) >= 2
    /\ lastOp.hash = CreateHash(regOrder[1])
    /\ GetConfig(lastOp.hash) = firstConf[lastOp.hash]
    /\ GetConfig(CreateHash(regOrder[2])) # GetConfig(lastOp.hash)

\* t1 is t2 with a literal in one or more of the slots where t2 has a
\* parameter placeholder: same positions, same query parameters.
DiffSlots(t1, t2) ==
    {key \in DOMAIN t1.routeParams : t1.routeParams[key] # t2.routeParams[key]}
LiteralFor(t1, t2) ==
    /\ DOMAIN t1.routeParams = DOMAIN t2.routeParams
    /\ t1.queryParams = t2.queryParams
    /\ DiffSlots(t1, t2) # {}
    /\ \A key \in DiffSlots(t1, t2) :
          t2.routeParams[key] = Sentinel /\ t1.routeParams[key] # Sentinel

Matches(t, c) == \A r \in Ranks(t, c) : r > 0

\* One more rank point for each slot where t1 has the literal.
OnePointPerSlot(t1, t2, c) ==
    \A r1 \in Ranks(t1, c), r2 \in Ranks(t2, c) :
        r1 = r2 + Cardinality(DiffSlots(t1, t2))

\* A third template of the bucket has a greater rank than the i-th, or the
\* same rank and an earlier registration.
Outdone(i, c) ==
    \E k \in SameBucket(c) :
        /\ k # i
        /\ \/ Rank(Registered(k), c) > Rank(Registered(i), c)
           \/ Rank(Registered(k), c) = Rank(Registered(i), c) /\ k < i

\* C6 as stated: of two registered templates that both match the URL, one
\* with literals where the other has placeholders, the one with the literals
\* has one more rank point per such slot and Find returns its hash.
C6_LiteralAlwaysReturned ==
    lastOp.op = "Find" =>
        \A i, j \in 1..Len(regOrder) :
            (/\ LiteralFor(Registered(i), Registered(j))
             /\ Matches(Registered(i), Candidate)
             /\ Matches(Registered(j), Candidate))
            => /\ OnePointPerSlot(Registered(i), Registered(j), Candidate)
               /\ lastOp.err = NoError
               /\ lastOp.hash = Registered(i).hash

\* C6 (as amended): the template with the literals has one more rank point
\* per such slot, Find succeeds and never returns the hash of the template
\* with the placeholders, whichever of the two was registered first; it
\* returns the hash of the template with the literals unless a third template
\* of the bucket has a greater rank, or the same rank and an earlier
\* registration.
C6_LiteralPreferred ==
    lastOp.op = "Find" =>
        \A i, j \in 1..Len(regOrder) :
            (/\ LiteralFor(Registered(i), Registered(j))
             /\ Matches(Registered(i), Candidate)
             /\ Matches(Registered(j), Candidate))
            => /\ OnePointPerSlot(Registered(i), Registered(j), Candidate)
               /\ lastOp.err = NoError
               /\ lastOp.hash # Registered(j).hash
               /\ (lastOp.hash = Registered(i).hash) <=> ~Outdone(i, Candidate)

\* The template with the placeholders was registered first, two slots
\* differ, and Find returned the template with the literals.
C6_Witness ==
    /\ FindSucceeded
    /\ \E i, j \in 1..Len(regOrder) :
          /\ j < i
          /\ LiteralFor(Registered(i), Registered(j))
          /\ Cardinality(DiffSlots(Registered(i), Registered(j))) = 2
          /\ Matches(Registered(j), Candidate)
          /\ lastOp.hash = Registered(i).hash

\* C10: a template without path segments has rank 0 against every URL, Find
\* never returns its hash, and Find of a URL without path segments fails
\* with NO_MATCH_FOUND once such a template is registered, the bucket for
\* segment count 0 being there.
C10_EmptyTemplateNeverFound ==
    \A i \in 1..Len(regOrder) :
        Card(Registered(i).routeParams) = 0 =>
            /\ 0 \in DOMAIN routes
            /\ \A url \in TableCandidates :
                  Ranks(Registered(i), ParseRoute(url)) = {0}
            /\ lastOp.op = "Find" =>
                  /\ lastOp.hash # Registered(i).hash
                  /\ Card(Candidate.routeParams) = 0 =>
                        lastOp.err = NO_MATCH_FOUND

\* Only a template without segments is registered, and Find was called with
\* the path and query it was registered with.
C10_Witness ==
    /\ Len(regOrder) = 1
    /\ Card(Registered(1).routeParams) = 0
    /\ lastOp.op = "Find"
    /\ lastOp.url.path = regOrder[1].path
    /\ lastOp.url.query = regOrder[1].query
    /\ 0 \in DOMAIN routes /\ Len(routes[0]) = 1
    /\ lastOp.err = NO_MATCH_FOUND

----------------------------------------------------------------------------
(* Register called from two goroutines.  The maps are not locked, so the    *)
(* statements of the two calls interleave; and when two goroutines are at a *)
(* statement on the same map, one of them writing it, the runtime may stop  *)
(* the program ("concurrent map writes").                                   *)

Procs == {1, 2}

ConcUrls ==
    {Url(Host1, PathA, << >>), Url(Host2, PathA, << >>), Url(Host1, PathP, << >>)}

NoLocals == [url |-> NoUrl, conf |-> NilConf, route |-> NoRoute, len |-> 0,
             slice |-> << >>, calls |-> 0]

InitConc ==
    /\ DefaultRouteTable
    /\ lastOp = NoOp
    /\ regOrder = << >>
    /\ firstConf = << >>
    /\ PureIdle
    /\ pc = [p \in Procs |-> "idle"]
    /\ loc = [p \in Procs |-> NoLocals]
    /\ crashed = FALSE
    /\ overlap = FALSE

\* Lines 182-183: the call begins, the URL is parsed.  The history notes the
\* hashes Register was called with, and whether another call is under way.
Call(p) ==
    /\ ~crashed
    /\ pc[p] = "idle"
    /\ loc[p].calls < MaxCalls
    /\ \E url \in ConcUrls, conf \in Confs :
          LET route == ParseRoute(url)
          IN /\ loc' = [loc EXCEPT ![p] =
                          [@ EXCEPT !.url = url, !.conf = conf, !.route = route,
                                    !.len = Card(route.routeParams),
                                    !.slice = << >>, !.calls = @ + 1]]
             /\ firstConf' = IF route.hash \in DOMAIN firstConf THEN firstConf
                             ELSE (route.hash :> conf) @@ firstConf
    /\ pc' = [pc EXCEPT ![p] = "check"]
    /\ overlap' = (overlap \/ \E q \in Procs \ {p} : pc[q] # "idle")
    /\ UNCHANGED <<routes, configs, lastOp, regOrder, pureVars, crashed>>

\* Lines 184-186
Check(p) ==
    /\ ~crashed
    /\ pc[p] = "check"
    /\ pc' = [pc EXCEPT ![p] =
                 IF IsRegistered(loc[p].route.hash) THEN "idle" ELSE "store"]
    /\ UNCHANGED <<routes, configs, lastOp, regOrder, firstConf, pureVars,
                   loc, crashed, overlap>>

\* Line 187
Store(p) ==
    /\ ~crashed
    /\ pc[p] = "store"
    /\ configs' = (loc[p].route.hash :> loc[p].conf) @@ configs
    /\ pc' = [pc EXCEPT ![p] = "bucket"]
    /\ UNCHANGED <<routes, lastOp, regOrder, firstConf, pureVars,
                   loc, crashed, overlap>>

\* Lines 188-189
Bucket(p) ==
    /\ ~crashed
    /\ pc[p] = "bucket"
    /\ pc' = [pc EXCEPT ![p] =
                 IF loc[p].len \in DOMAIN routes THEN "read" ELSE "make"]
    /\ UNCHANGED <<routes, configs, lastOp, regOrder, firstConf, pureVars,
                   loc, crashed, overlap>>

\* Line 190
Make(p) ==
    /\ ~crashed
    /\ pc[p] = "make"
    /\ routes' = (loc[p].len :> << >>) @@ routes
    /\ pc' = [pc EXCEPT ![p] = "read"]
    /\ UNCHANGED <<configs, lastOp, regOrder, firstConf, pureVars,
                   loc, crashed, overlap>>

\* Line 192, right-hand side: the slice is read from the map.
Read(p) ==
    /\ ~crashed
    /\ pc[p] = "read"
    /\ loc' = [loc EXCEPT ![p].slice = routes[loc[p].len]]
    /\ pc' = [pc EXCEPT ![p] = "write"]
    /\ UNCHANGED <<routes, configs, lastOp, regOrder, firstConf, pureVars,
                   crashed, overlap>>

\* Line 192, assignment: the slice with the route appended is stored.
Write(p) ==
    /\ ~crashed
    /\ pc[p] = "write"
    /\ routes' = [routes EXCEPT ![loc[p].len] = Append(loc[p].slice, loc[p].route)]
    /\ pc' = [pc EXCEPT ![p] = "idle"]
    /\ UNCHANGED <<configs, lastOp, regOrder, firstConf, pureVars,
                   loc, crashed, overlap>>

\* The statement a goroutine is at: which map it reads or writes.
OnConfigs(p) == pc[p] \in {"check", "store"}
WritesConfigs(p) == pc[p] = "store"
OnRoutes(p) == pc[p] \in {"bucket", "make", "read", "write"}
WritesRoutes(p) == pc[p] \in {"make", "write"}

\* The runtime finds a map written while another goroutine is on it.
Crash ==
    /\ ~crashed
    /\ \E p \in Procs :
          \E q \in Procs \ {p} :
              \/ WritesConfigs(p) /\ OnConfigs(q)
              \/ WritesRoutes(p) /\ OnRoutes(q)
    /\ crashed' = TRUE
    /\ UNCHANGED <<routes, configs, lastOp, regOrder, firstConf, pureVars,
                   pc, loc, overlap>>

NextConc ==
    \/ \E p \in Procs : Call(p)
    \/ \E p \in Procs : Check(p)
    \/ \E p \in Procs : Store(p)
    \/ \E p \in Procs : Bucket(p)
    \/ \E p \in Procs : Make(p)
    \/ \E p \in Procs : Read(p)
    \/ \E p \in Procs : Write(p)
    \/ Crash

SpecConc == InitConc /\ [][NextConc]_vars

AllReturned == \A p \in Procs : pc[p] = "idle"

\* C9: the duplicate check and the writes of Register are not one step.  As
\* long as no Register call began while another was under way, every hash
\* Register was called with is stored at most once, and exactly once when the
\* calls have returned; two calls that run at once can leave a hash stored
\* twice (C9_Witness).
C9_OnceUnlessConcurrent ==
    ~overlap =>
        \A hash \in DOMAIN firstConf :
            /\ Stored(hash) <= 1
            /\ AllReturned => Stored(hash) = 1 /\ IsRegistered(hash)

\* Each goroutine made one call, the two with the same hash, both returned,
\* and the route is in its bucket twice.
C9_Witness ==
    /\ overlap /\ ~crashed /\ AllReturned
    /\ \A p \in Procs : loc[p].calls = 1
    /\ loc[1].route.hash = loc[2].route.hash
    /\ Stored(loc[1].route.hash) = 2
    /\ Len(routes[loc[1].len]) = 2

----------------------------------------------------------------------------
(* ParseRoute applied to one URL *)

InitParse ==
    /\ TableIdle /\ ConcIdle
    /\ inT \in ParseUrls
    /\ inC = NoUrl
    /\ order = << >>
    /\ parsed = NoRoute
    /\ result = 0
    /\ done = FALSE

DoParse ==
    /\ ~done
    /\ parsed' = ParseRoute(inT)
    /\ done' = TRUE
    /\ UNCHANGED <<inT, inC, order, result, tableVars, concVars>>

NextParse == DoParse

SpecParse == InitParse /\ [][NextParse]_vars

\* The segments of a path read off its characters: a segment starts at every
\* character that is not a slash and follows a slash or begins the path, runs
\* to the next slash, and sits at the number of slashes written before it.
SegStarts(path) ==
    {p \in 1..Len(path) : path[p] # "/" /\ (p = 1 \/ path[p - 1] = "/")}
SegEnd(path, p) ==
    CHOOSE e \in p..Len(path) :
        /\ \A q \in p..e : path[q] # "/"
        /\ (e = Len(path) \/ path[e + 1] = "/")
SegText(path, p) == SubSeq(path, p, SegEnd(path, p))
SlashesBefore(path, p) == Cardinality({q \in 1..(p - 1) : path[q] = "/"})

StoredBySplitIndex ==
    /\ DOMAIN parsed.routeParams =
           {SlashesBefore(inT.path, p) : p \in SegStarts(inT.path)}
    /\ \A p \in SegStarts(inT.path) :
           parsed.routeParams[SlashesBefore(inT.path, p)] =
              IF inT.path[p] = ":" THEN Sentinel ELSE SegText(inT.path, p)

PathASlashSlashB == <<"/", "a", "/", "/", "b">>

\* C8 (as amended): ParseRoute stores each non-empty path segment under its
\* index in the "/"-split of the path and stores nothing for an empty segment;
\* the split of "/a//b" is "", "a", "", "b", so that path yields exactly the
\* segments 1="a" and 3="b".
C8_SplitIndex ==
    done =>
        /\ StoredBySplitIndex
        /\ inT.path = PathASlashSlashB =>
              parsed.routeParams = (1 :> <<"a">> @@ 3 :> <<"b">>)

\* C8 as stated: the same, with "/a//b" yielding exactly 0="a" and 2="b".
C8_AsStated ==
    done =>
        /\ StoredBySplitIndex
        /\ inT.path = PathASlashSlashB =>
              parsed.routeParams = (0 :> <<"a">> @@ 2 :> <<"b">>)

C8_Witness ==
    /\ done
    /\ inT.path = PathASlashSlashB
    /\ DOMAIN parsed.routeParams = {1, 3}

----------------------------------------------------------------------------
(* RouteCompare applied to one template and one candidate *)

InitScore ==
    /\ TableIdle /\ ConcIdle
    /\ inT \in ScoreTemplates
    /\ inC \in ScoreCandidates
    /\ order = << >>
    /\ parsed = NoRoute
    /\ result = 0
    /\ done = FALSE

DoCompare ==
    /\ ~done
    /\ \E ord \in Orders(ParseRoute(inT).routeParams) :
          /\ order' = ord
          /\ result' = RouteCompare(ParseRoute(inT), ParseRoute(inC), ord)
    /\ done' = TRUE
    /\ UNCHANGED <<inT, inC, parsed, tableVars, concVars>>

NextScore == DoCompare

SpecScore == InitScore /\ [][NextScore]_vars

T == ParseRoute(inT)
C == ParseRoute(inC)

\* Some literal segment of template t is not the candidate's segment there.
LiteralMismatch(t, c) ==
    \E key \in DOMAIN t.routeParams :
        /\ t.routeParams[key] # Sentinel
        /\ t.routeParams[key] # Lookup(c.routeParams, key)

\* The path segments of t and c match: as many segments, and no literal of t
\* differs from c.
PathMatch(t, c) ==
    /\ Card(t.routeParams) = Card(c.routeParams)
    /\ ~LiteralMismatch(t, c)

\* Every query key of t is in c with an equal normalized value.
QuerySubset(t, c) ==
    \A key \in DOMAIN t.queryParams :
        /\ key \in DOMAIN c.queryParams
        /\ c.queryParams[key] = t.queryParams[key]

\* c without the query keys that t does not name.
OnlyKeysOf(t, c) ==
    [c EXCEPT !.queryParams =
        [key \in DOMAIN c.queryParams \cap DOMAIN t.queryParams |->
            c.queryParams[key]]]

\* C7: a literal segment of the template that differs from the candidate's
\* segment at its position (an absent one counts as different) makes the rank
\* 0, in whatever order the template's positions are visited and whatever
\* else matches.
C7_LiteralMismatchIsZero ==
    (done /\ LiteralMismatch(T, C)) => result = 0

\* Same segment count, the query matches, and the first position visited
\* added to the rank before the mismatch was met at a later one.
C7_Witness ==
    /\ done
    /\ LiteralMismatch(T, C)
    /\ Card(T.routeParams) = Card(C.routeParams)
    /\ QuerySubset(T, C)
    /\ DOMAIN T.queryParams # {}
    /\ Len(order) >= 2
    /\ \/ T.routeParams[order[1]] = Sentinel
       \/ T.routeParams[order[1]] = Lookup(C.routeParams, order[1])
    /\ result = 0

====
